---- MODULE Spec2Model ----
(***************************************************************************)
(* A model of iroh-chat (src/src/main.rs): the envelope codec              *)
(* (Message::to_bytes / Message::from_bytes), the ticket codec (Display    *)
(* and FromStr for Ticket), the receive loop (subscribe_loop) and the      *)
(* session controller (main).                                              *)
(*                                                                         *)
(* Bytes and characters are natural numbers: a byte string and a text are  *)
(* sequences of codes (ASCII).  A Rust String is the sequence of its       *)
(* character codes.                                                        *)
(***************************************************************************)
EXTENDS Integers, Sequences, FiniteSets, TLC

(***************************************************************************)
(* Sizes fixed by the program's types.                                     *)
(***************************************************************************)
\* nonce: [u8; 16]
NonceLen ==
  16
\* TopicId::from_bytes(random::<[u8; 32]>())
TopicLen ==
  32
\* NodeId: an ed25519 public key, 32 bytes
NodeIdLen ==
  32
\* NodeId::fmt_short prints the first 5 bytes in hex
ShortLen ==
  5

(***************************************************************************)
(* Bounds of the model.                                                    *)
(***************************************************************************)
\* events the gossip receiver yields to subscribe_loop, run on its own
MaxEvents ==
  3
\* events the gossip receiver yields to subscribe_loop within a whole session
MaxSessionEvents ==
  1
\* lines stdin yields to main in one run
MaxLines ==
  2
\* peers of a ticket given to the ticket codec
MaxNodes ==
  2

(***************************************************************************)
(* Small helpers on sequences.                                             *)
(***************************************************************************)
Range(s) ==
  {s[i] : i \in DOMAIN s}

\* the function f on 1..n as a sequence in explicit form
Tuple(f) ==
  f \o <<>>

RECURSIVE Concat(_)
\* the concatenation of a sequence of sequences
Concat(ss) ==
  IF Len(ss) = 0 THEN <<>>
  ELSE IF Len(ss) = 1 THEN ss[1]
  ELSE LET half == Len(ss) \div 2
       IN  Concat(SubSeq(ss, 1, half)) \o Concat(SubSeq(ss, half + 1, Len(ss)))

\* the positions from..to, in order
Positions(from, to) ==
  Tuple([i \in 1..(to - from + 1) |-> from + i - 1])

Pow2(k) ==
  CASE k = 0 -> 1 [] k = 1 -> 2 [] k = 2 -> 4 [] k = 3 -> 8
    [] k = 4 -> 16 [] k = 5 -> 32 [] k = 6 -> 64 [] k = 7 -> 128

\* the failed result of a parse step
Fail ==
  [ok |-> FALSE]

(***************************************************************************)
(* Lower-case hexadecimal, as NodeId's Display and fmt_short print it      *)
(* (data_encoding::HEXLOWER).                                              *)
(***************************************************************************)
\* 0123456789abcdef
HexDigits ==
  <<48, 49, 50, 51, 52, 53, 54, 55, 56, 57, 97, 98, 99, 100, 101, 102>>

HexEncode(bytes) ==
  Tuple([i \in 1..(2 * Len(bytes)) |->
           IF i % 2 = 1 THEN HexDigits[(bytes[(i + 1) \div 2] \div 16) + 1]
           ELSE HexDigits[(bytes[i \div 2] % 16) + 1]])

IsHexDigit(c) ==
  c \in Range(HexDigits)

HexVal(c) ==
  (CHOOSE i \in 1..16 : HexDigits[i] = c) - 1

\* HEXLOWER.decode of a text of even length made of hex digits
HexDecode(text) ==
  Tuple([i \in 1..(Len(text) \div 2) |-> 16 * HexVal(text[2 * i - 1]) + HexVal(text[2 * i])])

\* NodeId::fmt_short: the first five bytes in hex
fmt_short(id) ==
  HexEncode(SubSeq(id, 1, ShortLen))

(***************************************************************************)
(* serde_json, compact form: the writer.                                   *)
(***************************************************************************)
\* a variant: the character written as it is
EscapeChar_raw(c) ==
  <<c>>

\* one character of a JSON string, escaped as serde_json escapes it
EscapeChar(c) ==
  CASE c = 34 -> <<92, 34>>       \* "  ->  \"
    [] c = 92 -> <<92, 92>>       \* \  ->  \\
    [] c = 10 -> <<92, 110>>      \* LF ->  \n
    [] c = 9  -> <<92, 116>>      \* TAB -> \t
    [] OTHER  -> <<c>>

WriteString(s) ==
  <<34>> \o Concat(Tuple([i \in 1..Len(s) |-> EscapeChar(s[i])])) \o <<34>>

\* a u8 in decimal, without leading zeros
WriteU8(n) ==
  IF n < 10 THEN <<48 + n>>
  ELSE IF n < 100 THEN <<48 + (n \div 10), 48 + (n % 10)>>
  ELSE <<48 + (n \div 100), 48 + ((n \div 10) % 10), 48 + (n % 10)>>

\* items (already written), separated by commas, between brackets
WriteArray(items) ==
  <<91>> \o Concat(Tuple([i \in 1..Len(items) |->
                             IF i = 1 THEN items[i] ELSE <<44>> \o items[i]])) \o <<93>>

\* [u8; N] is written as an array of numbers
WriteU8Array(bytes) ==
  WriteArray(Tuple([i \in 1..Len(bytes) |-> WriteU8(bytes[i])]))

\* NodeId is written as the string of its Display form (hex)
WriteNodeId(id) ==
  WriteString(HexEncode(id))

(***************************************************************************)
(* serde_json: the reader.  A reader state is [ok, pos, out]: whether the  *)
(* input read so far was accepted, the position of the next byte, and the  *)
(* values read.  Each step takes a state and returns the next; a step on a *)
(* failed state fails.  The reader accepts the compact layout with the     *)
(* fields in declaration order, which is what every peer of one build      *)
(* writes; whitespace between tokens and reordered fields are not among    *)
(* the inputs of the model.                                                *)
(***************************************************************************)
Start ==
  [ok |-> TRUE, pos |-> 1, out |-> <<>>]

Bad ==
  [ok |-> FALSE, pos |-> 0, out |-> <<>>]

\* the state after reading a value r = [ok, val, pos] (or Fail)
Push(st, r) ==
  IF st.ok /\ r.ok THEN [ok |-> TRUE, pos |-> r.pos, out |-> Append(st.out, r.val)]
  ELSE Bad

\* the position after lit when b holds lit at pos, else 0
ExpectLit(b, pos, lit) ==
  IF /\ pos >= 1
     /\ pos + Len(lit) - 1 <= Len(b)
     /\ \A i \in 1..Len(lit) : b[pos + i - 1] = lit[i]
  THEN pos + Len(lit)
  ELSE 0

ReadLit(b, st, lit) ==
  IF st.ok /\ ExpectLit(b, st.pos, lit) # 0 THEN [st EXCEPT !.pos = @ + Len(lit)]
  ELSE Bad

\* the number of backslashes that end just before position i, none of them
\* before position start
BackslashRun(b, start, i) ==
  CHOOSE k \in 0..(i - start) :
    /\ \A t \in 1..k : b[i - t] = 92
    /\ k = i - start \/ b[i - k - 1] # 92

\* the character an escape stands for (0: not an escape of the model)
Unescape(c) ==
  CASE c = 34 -> 34
    [] c = 92 -> 92
    [] c = 110 -> 10
    [] c = 116 -> 9
    [] OTHER -> 0

\* a quote that no backslash escapes
IsCloser(b, start, j) ==
  b[j] = 34 /\ BackslashRun(b, start, j) % 2 = 0

\* a backslash that starts an escape
IsEscape(b, start, i) ==
  b[i] = 92 /\ BackslashRun(b, start, i) % 2 = 0

\* the character after a backslash that starts an escape
IsEscaped(b, start, i) ==
  i > start /\ IsEscape(b, start, i - 1)

\* the characters of the string whose text is b[start..close - 1]
StringBody(b, start, close) ==
  LET NotEscape(i) == ~IsEscape(b, start, i)
      Char(i) == IF IsEscaped(b, start, i) THEN Unescape(b[i]) ELSE b[i]
      Chars(kept) == Tuple([n \in 1..Len(kept) |-> Char(kept[n])])
  IN  IF \E i \in start..(close - 1) :
           \/ IsEscaped(b, start, i) /\ Unescape(b[i]) = 0
           \/ ~IsEscaped(b, start, i) /\ b[i] < 32
      THEN Fail
      ELSE [ok |-> TRUE,
            val |-> Chars(SelectSeq(Positions(start, close - 1), NotEscape)),
            pos |-> close + 1]

\* a JSON string: from the quote at pos to the first quote that no backslash
\* escapes, with the escapes undone
ParseString(b, pos) ==
  IF ~(pos >= 1 /\ pos <= Len(b) /\ b[pos] = 34) THEN Fail
  ELSE IF ~\E j \in (pos + 1)..Len(b) : IsCloser(b, pos + 1, j) THEN Fail
  ELSE StringBody(b, pos + 1,
                  CHOOSE j \in (pos + 1)..Len(b) :
                    /\ IsCloser(b, pos + 1, j)
                    /\ \A k \in (pos + 1)..(j - 1) : ~IsCloser(b, pos + 1, k))

ReadString(b, st) ==
  Push(st, ParseString(b, st.pos))

IsDigit(c) ==
  c >= 48 /\ c <= 57

\* the value of the n digits at pos
Digits(b, pos, n) ==
  CASE n = 1 -> b[pos] - 48
    [] n = 2 -> 10 * (b[pos] - 48) + (b[pos + 1] - 48)
    [] n = 3 -> 100 * (b[pos] - 48) + 10 * (b[pos + 1] - 48) + (b[pos + 2] - 48)

\* the n digits at pos as a u8: no leading zero, no digit after, at most 255
U8OfDigits(b, pos, n) ==
  IF n > 1 /\ b[pos] = 48 THEN Fail
  ELSE IF pos + n <= Len(b) /\ IsDigit(b[pos + n]) THEN Fail
  ELSE IF Digits(b, pos, n) > 255 THEN Fail
  ELSE [ok |-> TRUE, val |-> Digits(b, pos, n), pos |-> pos + n]

\* a JSON number that fits a u8: one to three digits
ParseU8(b, pos) ==
  IF ~(pos >= 1 /\ pos <= Len(b) /\ IsDigit(b[pos])) THEN Fail
  ELSE U8OfDigits(b, pos,
                  IF pos + 1 <= Len(b) /\ IsDigit(b[pos + 1])
                  THEN IF pos + 2 <= Len(b) /\ IsDigit(b[pos + 2]) THEN 3 ELSE 2
                  ELSE 1)

\* the numbers of the array b[open..close], whose commas are at the positions
\* commas: n numbers, each ending where the next comma or the bracket is
U8Items(b, open, close, commas, n) ==
  LET count == IF close = open + 1 THEN 0 ELSE Len(commas) + 1
      first(k) == IF k = 1 THEN open + 1 ELSE commas[k - 1] + 1
      after(k) == IF k = count THEN close ELSE commas[k]
      Item(k) == ParseU8(b, first(k))
      Whole(r, k) == r.ok /\ r.pos = after(k)
  IN  IF count = n /\ \A k \in 1..count : Whole(Item(k), k)
      THEN [ok |-> TRUE, val |-> Tuple([k \in 1..count |-> Item(k).val]), pos |-> close + 1]
      ELSE Fail

\* the commas of b[open..close]
CommasOf(b, open, close) ==
  LET IsComma(i) == b[i] = 44
  IN  SelectSeq(Positions(open + 1, close - 1), IsComma)

\* the array of n numbers that ends at the bracket at close
U8ArrayTo(b, open, close, n) ==
  U8Items(b, open, close, CommasOf(b, open, close), n)

\* [u8; n]: an array of exactly n numbers
ParseU8Array(b, pos, n) ==
  IF ~(pos >= 1 /\ pos <= Len(b) /\ b[pos] = 91) THEN Fail
  ELSE IF ~\E j \in (pos + 1)..Len(b) : b[j] = 93 THEN Fail
  ELSE U8ArrayTo(b, pos,
                 CHOOSE j \in (pos + 1)..Len(b) :
                   b[j] = 93 /\ \A k \in (pos + 1)..(j - 1) : b[k] # 93,
                 n)

ReadU8Array(b, st, n) ==
  Push(st, ParseU8Array(b, st.pos, n))

\* PublicKey::from_str on the string r read: 64 hex digits
NodeIdOfString(r) ==
  IF ~r.ok THEN Fail
  ELSE IF Len(r.val) = 2 * NodeIdLen /\ \A i \in 1..Len(r.val) : IsHexDigit(r.val[i])
  THEN [ok |-> TRUE, val |-> HexDecode(r.val), pos |-> r.pos]
  ELSE Fail

\* NodeId: the string of its Display form
ParseNodeId(b, pos) ==
  NodeIdOfString(ParseString(b, pos))

ReadNodeId(b, st) ==
  Push(st, ParseNodeId(b, st.pos))

(***************************************************************************)
(* The envelope: struct Message { body: MessageBody, nonce: [u8; 16] }.    *)
(* A body is [type |-> "AboutMe", from, name] or                           *)
(* [type |-> "Message", from, text].                                       *)
(***************************************************************************)
AboutMe(from, name) ==
  [type |-> "AboutMe", from |-> from, name |-> name]

ChatMessage(from, text) ==
  [type |-> "Message", from |-> from, text |-> text]

\* Message::new; nonce is the value random() returned
Message_new(body, nonce) ==
  [body |-> body, nonce |-> nonce]

\* {"body":{"AboutMe":{"from":
LitAboutMeOpen ==
  <<123, 34, 98, 111, 100, 121, 34, 58, 123, 34, 65, 98, 111, 117, 116, 77, 101,
    34, 58, 123, 34, 102, 114, 111, 109, 34, 58>>
\* {"body":{"Message":{"from":
LitMessageOpen ==
  <<123, 34, 98, 111, 100, 121, 34, 58, 123, 34, 77, 101, 115, 115, 97, 103, 101,
    34, 58, 123, 34, 102, 114, 111, 109, 34, 58>>
\* ,"name":
LitNameKey ==
  <<44, 34, 110, 97, 109, 101, 34, 58>>
\* ,"text":
LitTextKey ==
  <<44, 34, 116, 101, 120, 116, 34, 58>>
\* }},"nonce":
LitNonceKey ==
  <<125, 125, 44, 34, 110, 111, 110, 99, 101, 34, 58>>
\* }
LitObjClose ==
  <<125>>

\* Message::to_bytes: serde_json::to_vec(self); the enum is externally tagged
to_bytes(self) ==
  (IF self.body.type = "AboutMe"
   THEN LitAboutMeOpen \o WriteNodeId(self.body.from)
          \o LitNameKey \o WriteString(self.body.name)
   ELSE LitMessageOpen \o WriteNodeId(self.body.from)
          \o LitTextKey \o WriteString(self.body.text))
  \o LitNonceKey \o WriteU8Array(self.nonce) \o LitObjClose

\* the variant's name and the key of its first field: out gets the name
ReadVariant(b, st) ==
  IF ExpectLit(b, st.pos, LitAboutMeOpen) # 0
  THEN Push(st, [ok |-> TRUE, val |-> "AboutMe", pos |-> st.pos + Len(LitAboutMeOpen)])
  ELSE IF ExpectLit(b, st.pos, LitMessageOpen) # 0
  THEN Push(st, [ok |-> TRUE, val |-> "Message", pos |-> st.pos + Len(LitMessageOpen)])
  ELSE Bad

\* the key of the variant's second field: name for AboutMe, text for Message
ReadStringKey(b, st) ==
  IF ~st.ok THEN Bad
  ELSE ReadLit(b, st, IF st.out[1] = "AboutMe" THEN LitNameKey ELSE LitTextKey)

\* the Message read when st is the state at the end of the bytes
MessageRead(b, st) ==
  IF st.ok /\ st.pos = Len(b) + 1
  THEN [ok |-> TRUE,
        val |-> Message_new(IF st.out[1] = "AboutMe" THEN AboutMe(st.out[2], st.out[3])
                            ELSE ChatMessage(st.out[2], st.out[3]),
                            st.out[4])]
  ELSE [ok |-> FALSE, err |-> "MalformedEnvelope"]

\* Message::from_bytes: serde_json::from_slice(bytes); an Err is the spec's
\* MalformedEnvelope
from_bytes(bytes) ==
  LET variant == ReadVariant(bytes, Start)
      from == ReadNodeId(bytes, variant)
      key == ReadStringKey(bytes, from)
      string == ReadString(bytes, key)
      nonceKey == ReadLit(bytes, string, LitNonceKey)
      nonce == ReadU8Array(bytes, nonceKey, NonceLen)
      close == ReadLit(bytes, nonce, LitObjClose)
  IN  MessageRead(bytes, close)

(***************************************************************************)
(* Base 32 (RFC 4648 alphabet, no padding): data_encoding::BASE32_NOPAD.   *)
(***************************************************************************)
\* ABCDEFGHIJKLMNOPQRSTUVWXYZ234567
Base32Alphabet ==
  <<65, 66, 67, 68, 69, 70, 71, 72, 73, 74, 75, 76, 77, 78, 79, 80, 81, 82, 83,
    84, 85, 86, 87, 88, 89, 90, 50, 51, 52, 53, 54, 55>>

\* bit k (from 0, most significant first) of a sequence of w-bit values
BitOf(vals, w, k) ==
  (vals[(k \div w) + 1] \div Pow2(w - 1 - (k % w))) % 2

\* BASE32_NOPAD.encode: 5 bits a symbol, the last symbol filled with zeros
Base32Encode(bytes) ==
  LET nbits == 8 * Len(bytes)
      bit(k) == IF k < nbits THEN BitOf(bytes, 8, k) ELSE 0
      val(j) == 16 * bit(5 * j) + 8 * bit(5 * j + 1) + 4 * bit(5 * j + 2)
                  + 2 * bit(5 * j + 3) + bit(5 * j + 4)
  IN  Tuple([j \in 1..((nbits + 4) \div 5) |-> Base32Alphabet[val(j - 1) + 1]])

Base32Val(c) ==
  (CHOOSE i \in 1..32 : Base32Alphabet[i] = c) - 1

\* BASE32_NOPAD.decode: fails on a symbol outside the alphabet, on a length no
\* encoding has, and on trailing bits that are not zero
Base32Decode(text) ==
  LET n == Len(text)
      nbytes == (5 * n) \div 8
      spare == 5 * n - 8 * nbytes
      vals == Tuple([i \in 1..n |-> IF text[i] \in Range(Base32Alphabet)
                                    THEN Base32Val(text[i]) ELSE 0])
      bit(k) == BitOf(vals, 5, k)
      byte(j) == 128 * bit(8 * j) + 64 * bit(8 * j + 1) + 32 * bit(8 * j + 2)
                   + 16 * bit(8 * j + 3) + 8 * bit(8 * j + 4) + 4 * bit(8 * j + 5)
                   + 2 * bit(8 * j + 6) + bit(8 * j + 7)
  IN  IF \E i \in 1..n : text[i] \notin Range(Base32Alphabet) THEN Fail
      ELSE IF spare >= 5 THEN Fail
      ELSE IF \E k \in (8 * nbytes)..(5 * n - 1) : bit(k) # 0 THEN Fail
      ELSE [ok |-> TRUE, val |-> Tuple([j \in 1..nbytes |-> byte(j - 1)])]

\* str::to_lowercase on ASCII
to_lowercase(text) ==
  Tuple([i \in 1..Len(text) |->
           IF text[i] >= 65 /\ text[i] <= 90 THEN text[i] + 32 ELSE text[i]])

\* str::to_uppercase on ASCII
to_uppercase(text) ==
  Tuple([i \in 1..Len(text) |->
           IF text[i] >= 97 /\ text[i] <= 122 THEN text[i] - 32 ELSE text[i]])

(***************************************************************************)
(* The ticket: struct Ticket { topic: TopicId, nodes: Vec<NodeAddr> }.     *)
(* A NodeAddr is [node_id, relay_url, direct_addresses]: relay_url is <<>> *)
(* (None) or <<url>> (Some), direct_addresses the socket addresses in the  *)
(* order of the BTreeSet; urls and socket addresses are texts the core     *)
(* copies through.                                                         *)
(***************************************************************************)
NodeAddr(node_id, relay_url, direct_addresses) ==
  [node_id |-> node_id, relay_url |-> relay_url, direct_addresses |-> direct_addresses]

\* {"topic":
LitTopicKey ==
  <<123, 34, 116, 111, 112, 105, 99, 34, 58>>
\* ,"nodes":
LitNodesKey ==
  <<44, 34, 110, 111, 100, 101, 115, 34, 58>>
\* {"node_id":
LitNodeIdKey ==
  <<123, 34, 110, 111, 100, 101, 95, 105, 100, 34, 58>>
\* ,"relay_url":
LitRelayKey ==
  <<44, 34, 114, 101, 108, 97, 121, 95, 117, 114, 108, 34, 58>>
\* null
LitNull ==
  <<110, 117, 108, 108>>
\* ,"direct_addresses":
LitDirectKey ==
  <<44, 34, 100, 105, 114, 101, 99, 116, 95, 97, 100, 100, 114, 101, 115, 115,
    101, 115, 34, 58>>

WriteNodeAddr(a) ==
  LitNodeIdKey \o WriteNodeId(a.node_id)
    \o LitRelayKey
    \o (IF a.relay_url = <<>> THEN LitNull ELSE WriteString(a.relay_url[1]))
    \o LitDirectKey
    \o WriteArray(Tuple([i \in 1..Len(a.direct_addresses) |->
                            WriteString(a.direct_addresses[i])]))
    \o LitObjClose

\* serde_json::to_vec(&ticket)
WriteTicket(t) ==
  LitTopicKey \o WriteU8Array(t.topic)
    \o LitNodesKey
    \o WriteArray(Tuple([i \in 1..Len(t.nodes) |-> WriteNodeAddr(t.nodes[i])]))
    \o LitObjClose

\* Some(v) for a value read
SomeOf(r) ==
  IF r.ok THEN [ok |-> TRUE, val |-> <<r.val>>, pos |-> r.pos] ELSE Fail

\* Option<RelayUrl>: null or a string; out gets <<>> or <<url>>
ReadOptionString(b, st) ==
  IF ~st.ok THEN Bad
  ELSE IF ExpectLit(b, st.pos, LitNull) # 0
  THEN Push(st, [ok |-> TRUE, val |-> <<>>, pos |-> st.pos + Len(LitNull)])
  ELSE Push(st, SomeOf(ParseString(b, st.pos)))

\* st with the value read last appended to the list read before it
Collect(st) ==
  IF ~st.ok THEN Bad
  ELSE [st EXCEPT !.out = Append(SubSeq(@, 1, Len(@) - 2),
                                 Append(@[Len(@) - 1], @[Len(@)]))]

\* st after the comma that separates the next item from the list read so far
ReadSeparator(b, st) ==
  IF ~st.ok THEN Bad
  ELSE IF st.out[Len(st.out)] = <<>> THEN st
  ELSE ReadLit(b, st, <<44>>)

\* st with an empty list as the value read, after the bracket that opens one
ReadOpen(b, st) ==
  Push(st, [ok |-> ExpectLit(b, st.pos, <<91>>) # 0, val |-> <<>>, pos |-> st.pos + 1])

RECURSIVE ReadStringItems(_, _)
\* the strings of an array up to its closing bracket, added to the list that
\* is the value read last
ReadStringItems(b, st) ==
  IF ~st.ok \/ st.pos > Len(b) THEN Bad
  ELSE IF b[st.pos] = 93 THEN [st EXCEPT !.pos = @ + 1]
  ELSE ReadStringItems(b, Collect(ReadString(b, ReadSeparator(b, st))))

\* BTreeSet<SocketAddr>: an array of strings
ReadStrings(b, st) ==
  ReadStringItems(b, ReadOpen(b, st))

\* the NodeAddr whose fields are the three values read last, as one value
CollectNodeAddr(st) ==
  IF ~st.ok THEN Bad
  ELSE [st EXCEPT !.out = Append(SubSeq(@, 1, Len(@) - 3),
                                 NodeAddr(@[Len(@) - 2], @[Len(@) - 1], @[Len(@)]))]

ReadNodeAddr(b, st) ==
  LET idKey == ReadLit(b, st, LitNodeIdKey)
      id == ReadNodeId(b, idKey)
      relayKey == ReadLit(b, id, LitRelayKey)
      relay == ReadOptionString(b, relayKey)
      directKey == ReadLit(b, relay, LitDirectKey)
      direct == ReadStrings(b, directKey)
      close == ReadLit(b, direct, LitObjClose)
  IN  CollectNodeAddr(close)

RECURSIVE ReadNodeAddrItems(_, _)
\* the NodeAddr records of an array up to its closing bracket, added to the
\* list that is the value read last
ReadNodeAddrItems(b, st) ==
  IF ~st.ok \/ st.pos > Len(b) THEN Bad
  ELSE IF b[st.pos] = 93 THEN [st EXCEPT !.pos = @ + 1]
  ELSE ReadNodeAddrItems(b, Collect(ReadNodeAddr(b, ReadSeparator(b, st))))

\* Vec<NodeAddr>
ReadNodeAddrs(b, st) ==
  ReadNodeAddrItems(b, ReadOpen(b, st))

\* the Ticket read when st is the state at the end of the bytes
TicketRead(b, st) ==
  IF st.ok /\ st.pos = Len(b) + 1
  THEN [ok |-> TRUE, val |-> [topic |-> st.out[1], nodes |-> st.out[2]]]
  ELSE Fail

\* serde_json::from_slice::<Ticket>(bytes)
ParseTicket(b) ==
  LET topicKey == ReadLit(b, Start, LitTopicKey)
      topic == ReadU8Array(b, topicKey, TopicLen)
      nodesKey == ReadLit(b, topic, LitNodesKey)
      nodes == ReadNodeAddrs(b, nodesKey)
      close == ReadLit(b, nodes, LitObjClose)
  IN  TicketRead(b, close)

\* impl fmt::Display for Ticket: the text `{}` prints
Ticket_fmt(self) ==
  LET bytes == WriteTicket(self)
      text == to_lowercase(Base32Encode(bytes))
  IN  text

\* line 81: serde_json::from_slice(&bytes) on the bytes decoded, when line 80
\* has not returned; an Err is the spec's InvalidTicketSchema
TicketOfBytes(decoded) ==
  IF ~decoded.ok THEN [ok |-> FALSE, err |-> "InvalidTicketEncoding"]
  ELSE IF ParseTicket(decoded.val).ok THEN [ok |-> TRUE, val |-> ParseTicket(decoded.val).val]
  ELSE [ok |-> FALSE, err |-> "InvalidTicketSchema"]

\* a variant: the text handed to the base 32 decoder as typed
Ticket_from_str_as_typed(s) ==
  TicketOfBytes(Base32Decode(s))

\* impl FromStr for Ticket; the `?` of line 80 returns the spec's
\* InvalidTicketEncoding
Ticket_from_str(s) ==
  TicketOfBytes(Base32Decode(to_uppercase(s)))

(***************************************************************************)
(* The values the model draws its inputs from.                             *)
(***************************************************************************)
NodeIdOf(k) ==
  Tuple([i \in 1..NodeIdLen |-> (k * 53 + i * 7) % 256])

TopicOf(k) ==
  Tuple([i \in 1..TopicLen |-> (k * 91 + i * 13) % 256])

NonceOf(k) ==
  Tuple([i \in 1..NonceLen |-> (k * 101 + i * 17) % 256])

\* endpoint.node_id() of this session, and two other participants
Me ==
  NodeIdOf(1)

PeerA ==
  NodeIdOf(2)

PeerB ==
  NodeIdOf(3)

NodeIds ==
  {Me, PeerA, PeerB}

\* the values random::<[u8; 32]>() and random::<[u8; 16]>() may return
Topics ==
  {TopicOf(1), TopicOf(2)}

Nonces ==
  {NonceOf(0), NonceOf(1)}

\* https://r.io/
RelayUrlA ==
  <<104, 116, 116, 112, 115, 58, 47, 47, 114, 46, 105, 111, 47>>
\* 10.0.0.1:7
SockA ==
  <<49, 48, 46, 48, 46, 48, 46, 49, 58, 55>>
\* 10.0.0.2:7
SockB ==
  <<49, 48, 46, 48, 46, 48, 46, 50, 58, 55>>

\* endpoint.node_addr() of this session
MyAddr ==
  NodeAddr(Me, <<RelayUrlA>>, <<SockA>>)

AddrA ==
  NodeAddr(PeerA, <<RelayUrlA>>, <<SockA, SockB>>)

AddrB ==
  NodeAddr(PeerB, <<>>, <<>>)

\* display names: the empty name, "Al", "Bo"
NameAl ==
  <<65, 108>>

NameBo ==
  <<66, 111>>

DisplayNames ==
  {<<>>, NameAl, NameBo}

\* chat texts: hi, and a"b\ (characters JSON escapes)
TextHi ==
  <<104, 105>>

TextQuote ==
  <<97, 34, 98, 92>>

\* stdin lines: the empty line, a line of a space and a tab, and  a"b\  with
\* a leading space
Lines ==
  {<<>>, <<32, 9>>, <<32>> \o TextQuote}

\* char::is_whitespace on the characters of the model
IsWhitespace(c) ==
  c \in {9, 10, 11, 12, 13, 32}

\* a variant: text.is_empty(), without the trim
IsEmpty(text) ==
  text = <<>>

\* text.trim().is_empty()
TrimIsEmpty(text) ==
  \A i \in 1..Len(text) : IsWhitespace(text[i])

(***************************************************************************)
(* The state.                                                              *)
(***************************************************************************)
VARIABLES
  args,        \* Args: [command, ticket, name]
  mpc,         \* where main is
  mres,        \* what main returned: "running", "Ok" or the error
  topic_id,    \* main's topic_id (<<>> before the match on the command)
  peers,       \* main's peers
  stdout,      \* the tickets main printed ("> Ticket to join: {}")
  added,       \* the addresses given to endpoint.add_node_addr, in order
  subscribed,  \* the calls of gossip.subscribe: [topic, bootstrap]
  sent,        \* the calls of sender.broadcast: [bytes, ok]
  lines,       \* the lines stdin.lines() has yielded
  shutdowns,   \* the calls of router.shutdown
  task,        \* the spawned subscribe_loop: "unspawned", "running", "Ok" or its error
  names,       \* the roster: HashMap<NodeId, String>
  delivered,   \* the events receiver.try_next() has yielded, in order
  output,      \* the lines subscribe_loop has printed
  guard,       \* subscribe_loop holds the MutexGuard of names while it awaits
  cpc,         \* codec harness: which codec step comes next
  cval,        \* codec harness: the value encoded
  cwire,       \* codec harness: the text or bytes in hand
  cnote,       \* codec harness: what was done to the text or bytes
  cres         \* codec harness: the result of decoding

mainVars ==
  <<args, mpc, mres, topic_id, peers, stdout, added, subscribed, sent, lines, shutdowns>>

taskVars ==
  <<task, names, delivered, output, guard>>

codecVars ==
  <<cpc, cval, cwire, cnote, cres>>

vars ==
  <<mainVars, taskVars, codecVars>>

(***************************************************************************)
(* HashMap<NodeId, String> as a function on the keys present.              *)
(***************************************************************************)
EmptyMap ==
  [k \in {} |-> <<>>]

\* a variant: entry(k).or_insert(v), which keeps the value of a key present
HashMap_insert_keep(m, k, v) ==
  [x \in (DOMAIN m) \cup {k} |-> IF x = k /\ k \notin DOMAIN m THEN v ELSE m[x]]

\* a variant: entry(k).or_default().push_str(&v), which extends the value of a
\* key present
HashMap_insert_append(m, k, v) ==
  [x \in (DOMAIN m) \cup {k} |->
     IF x # k THEN m[x] ELSE IF k \in DOMAIN m THEN m[k] \o v ELSE v]

\* HashMap::insert: adds the key or overwrites its value
HashMap_insert(m, k, v) ==
  [x \in (DOMAIN m) \cup {k} |-> IF x = k THEN v ELSE m[x]]

\* HashMap::get(..).cloned(): <<>> for None, <<v>> for Some(v)
HashMap_get(m, k) ==
  IF k \in DOMAIN m THEN <<m[k]>> ELSE <<>>

\* a variant: Option::unwrap_or_default, the empty string for None
unwrap_or_default(opt, default) ==
  IF opt = <<>> THEN <<>> ELSE opt[1]

\* Option::unwrap_or
unwrap_or(opt, default) ==
  IF opt = <<>> THEN default ELSE opt[1]

(***************************************************************************)
(* subscribe_loop.  An event is [type |-> "Received", content,             *)
(* delivered_from], [type |-> "NeighborUp", node_id],                      *)
(* [type |-> "NeighborDown", node_id] or [type |-> "Lagged"].              *)
(***************************************************************************)
Received(content, delivered_from) ==
  [type |-> "Received", content |-> content, delivered_from |-> delivered_from]

NeighborUp(node_id) ==
  [type |-> "NeighborUp", node_id |-> node_id]

NeighborDown(node_id) ==
  [type |-> "NeighborDown", node_id |-> node_id]

Lagged ==
  [type |-> "Lagged"]

\* the bytes of an envelope another participant wrote
Wire(body) ==
  to_bytes(Message_new(body, NonceOf(2)))

\* the events the gossip layer may yield: envelopes of PeerA and PeerB (one
\* of them relayed by the other peer, one with an empty name), the first
\* three bytes of an envelope, and the membership and lag events
Events ==
  { Received(Wire(AboutMe(PeerA, NameAl)), PeerA),
    Received(Wire(AboutMe(PeerA, NameBo)), PeerB),
    Received(Wire(AboutMe(PeerB, <<>>)), PeerB),
    Received(Wire(ChatMessage(PeerA, TextHi)), PeerA),
    Received(Wire(ChatMessage(PeerB, TextQuote)), PeerA),
    Received(SubSeq(Wire(AboutMe(PeerA, NameAl)), 1, 3), PeerA),
    NeighborUp(PeerA),
    NeighborDown(PeerA),
    Lagged }

\* the events a whole session is run with: one of each kind
SessionEvents ==
  { Received(Wire(AboutMe(PeerA, NameAl)), PeerA),
    Received(Wire(ChatMessage(PeerA, TextHi)), PeerA),
    Received(SubSeq(Wire(AboutMe(PeerA, NameAl)), 1, 3), PeerA),
    NeighborDown(PeerA),
    Lagged }

\* main has returned: the runtime is dropped and the spawned task with it
Exited ==
  mpc = "exit"

\* a variant: the guard is bound outside the loop's body and lives on to the
\* next try_next().await
OnBody_keep_guard(body) ==
  IF body.type = "AboutMe"
  THEN /\ names' = HashMap_insert(names, body.from, body.name)
       /\ output' = Append(output, [kind |-> "joined",
                                    who |-> fmt_short(body.from),
                                    name |-> body.name])
       /\ task' = task
       /\ guard' = TRUE
  ELSE /\ output' = Append(output,
                           [kind |-> "chat",
                            name |-> unwrap_or(HashMap_get(names, body.from),
                                               fmt_short(body.from)),
                            text |-> body.text])
       /\ guard' = TRUE
       /\ UNCHANGED <<names, task>>

\* a variant: an AboutMe that repeats the roster's entry is dropped, nothing
\* printed
OnBody_dedup(body) ==
  IF body.type = "AboutMe"
  THEN /\ names' = HashMap_insert(names, body.from, body.name)
       /\ output' = (IF HashMap_get(names, body.from) = <<body.name>> THEN output
                     ELSE Append(output, [kind |-> "joined",
                                          who |-> fmt_short(body.from),
                                          name |-> body.name]))
       /\ task' = task
       /\ guard' = FALSE
  ELSE /\ output' = Append(output,
                           [kind |-> "chat",
                            name |-> unwrap_or(HashMap_get(names, body.from),
                                               fmt_short(body.from)),
                            text |-> body.text])
       /\ guard' = FALSE
       /\ UNCHANGED <<names, task>>

\* lines 93-104: the roster is locked, the body matched, and the guard
\* dropped at the end of the arm
OnBody(body) ==
  IF body.type = "AboutMe"
  THEN /\ names' = HashMap_insert(names, body.from, body.name)
       /\ output' = Append(output, [kind |-> "joined",
                                    who |-> fmt_short(body.from),
                                    name |-> body.name])
       /\ task' = task
       /\ guard' = FALSE
  ELSE /\ output' = Append(output,
                           [kind |-> "chat",
                            name |-> unwrap_or(HashMap_get(names, body.from),
                                               fmt_short(body.from)),
                            text |-> body.text])
       /\ guard' = FALSE
       /\ UNCHANGED <<names, task>>

\* a variant: `let Ok(message) = .. else { continue }`, which skips the bytes
\* that do not decode
OnDecoded_skip(message) ==
  IF ~message.ok
  THEN UNCHANGED <<task, names, output, guard>>
  ELSE OnBody(message.val.body)

\* line 92: `?` on the result of Message::from_bytes
OnDecoded(message) ==
  IF ~message.ok
  THEN /\ task' = message.err
       /\ UNCHANGED <<names, output, guard>>
  ELSE OnBody(message.val.body)

\* a variant: an envelope whose body names another identity than the peer
\* that delivered it is dropped
OnReceived_bound(event) ==
  IF /\ from_bytes(event.content).ok
     /\ from_bytes(event.content).val.body.from # event.delivered_from
  THEN UNCHANGED <<task, names, output, guard>>
  ELSE OnDecoded(from_bytes(event.content))

\* the arm Event::Received(msg), lines 91-104
OnReceived(event) ==
  OnDecoded(from_bytes(event.content))

\* the arm Event::NeighborUp(node_id), lines 105-107
OnNeighborUp(event) ==
  /\ output' = Append(output, [kind |-> "neighbor_up", who |-> fmt_short(event.node_id)])
  /\ UNCHANGED <<names, task, guard>>

\* a variant: the arm also removes the neighbour from the roster
OnNeighborDown_forget(event) ==
  /\ output' = Append(output, [kind |-> "neighbor_down", who |-> fmt_short(event.node_id)])
  /\ names' = [x \in (DOMAIN names) \ {event.node_id} |-> names[x]]
  /\ UNCHANGED <<task, guard>>

\* the arm Event::NeighborDown(node_id), lines 108-110
OnNeighborDown(event) ==
  /\ output' = Append(output, [kind |-> "neighbor_down", who |-> fmt_short(event.node_id)])
  /\ UNCHANGED <<names, task, guard>>

\* a variant: the arm also clears the roster, names.lock().await.clear()
OnLagged_clear ==
  /\ output' = Append(output, [kind |-> "lagged"])
  /\ names' = EmptyMap
  /\ UNCHANGED <<task, guard>>

\* the arm Event::Lagged, lines 111-113
OnLagged ==
  /\ output' = Append(output, [kind |-> "lagged"])
  /\ UNCHANGED <<names, task, guard>>

\* one turn of the while loop: try_next() yields Some(event), one of events;
\* at most limit events are yielded
LoopTurn(events, limit) ==
  /\ task = "running" /\ ~Exited
  /\ Len(delivered) < limit
  /\ \E event \in events :
       /\ delivered' = Append(delivered, event)
       /\ CASE event.type = "Received" -> OnReceived(event)
            [] event.type = "NeighborUp" -> OnNeighborUp(event)
            [] event.type = "NeighborDown" -> OnNeighborDown(event)
            [] event.type = "Lagged" -> OnLagged
  /\ UNCHANGED <<mainVars, codecVars>>

LoopEvent ==
  LoopTurn(Events, MaxEvents)

SessionLoopEvent ==
  LoopTurn(SessionEvents, MaxSessionEvents)

\* try_next() yields None: the loop ends and the task returns Ok(())
LoopEnd ==
  /\ task = "running" /\ ~Exited
  /\ task' = "Ok"
  /\ UNCHANGED <<names, delivered, output, guard, mainVars, codecVars>>

\* try_next() yields an Err of the receiver: `?` returns it
LoopReceiverError ==
  /\ task = "running" /\ ~Exited
  /\ task' = "ReceiverError"
  /\ UNCHANGED <<names, delivered, output, guard, mainVars, codecVars>>

(***************************************************************************)
(* main.  An error returned by `?` ends main with that error; mpc = "exit" *)
(* is the process having ended.                                            *)
(***************************************************************************)
\* return Err(err) from main
ExitWith(err) ==
  /\ mpc' = "exit"
  /\ mres' = err

\* line 124: Endpoint::builder().discovery_n0().bind().await?; lines 127-132
\* build the gossip instance and the router
Bind ==
  /\ mpc = "bind"
  /\ \/ /\ mpc' = "command"
        /\ mres' = mres
     \/ ExitWith("BindError")
  /\ UNCHANGED <<args, topic_id, peers, stdout, added, subscribed, sent, lines, shutdowns,
                 taskVars, codecVars>>

\* a variant: Open returns (topic_id, vec![my_addr])
CommandOpen_self_peer ==
  /\ mpc = "command"
  /\ args.command = "Open"
  /\ \E minted \in Topics :
       /\ stdout' = Append(stdout, Ticket_fmt([topic |-> minted, nodes |-> <<MyAddr>>]))
       /\ topic_id' = minted
       /\ peers' = <<MyAddr>>
  /\ mpc' = "add_peers"
  /\ UNCHANGED <<args, mres, added, subscribed, sent, lines, shutdowns, taskVars, codecVars>>

\* lines 136-143: Commands::Open
CommandOpen ==
  /\ mpc = "command"
  /\ args.command = "Open"
  /\ \E minted \in Topics :
       LET my_addr == MyAddr
           ticket == [topic |-> minted, nodes |-> <<my_addr>>]
       IN  /\ stdout' = Append(stdout, Ticket_fmt(ticket))
           /\ topic_id' = minted
           /\ peers' = <<>>
  /\ mpc' = "add_peers"
  /\ UNCHANGED <<args, mres, added, subscribed, sent, lines, shutdowns, taskVars, codecVars>>

\* a variant: ticket.parse().unwrap_or_default(), a ticket of no topic and no
\* peer in place of the error
OnTicket_lenient(ticket) ==
  /\ topic_id' = (IF ticket.ok THEN ticket.val.topic ELSE TopicOf(0))
  /\ peers' = (IF ticket.ok THEN ticket.val.nodes ELSE <<>>)
  /\ mpc' = "add_peers"
  /\ mres' = mres

\* lines 145-146: `?` on the parsed ticket, and its topic and nodes
OnTicket(ticket) ==
  IF ticket.ok
  THEN /\ topic_id' = ticket.val.topic
       /\ peers' = ticket.val.nodes
       /\ mpc' = "add_peers"
       /\ mres' = mres
  ELSE /\ ExitWith(ticket.err)
       /\ UNCHANGED <<topic_id, peers>>

\* lines 144-147: Commands::Join { ticket }
CommandJoin ==
  /\ mpc = "command"
  /\ args.command = "Join"
  /\ OnTicket(Ticket_from_str(args.ticket))
  /\ UNCHANGED <<args, stdout, added, subscribed, sent, lines, shutdowns, taskVars, codecVars>>

\* a variant: only peers.first() is given to endpoint.add_node_addr
AddKnownPeers_first ==
  /\ mpc = "add_peers"
  /\ added' = added \o (IF peers = <<>> THEN <<>> ELSE <<peers[1]>>)
  /\ mpc' = "subscribe"
  /\ UNCHANGED <<args, mres, topic_id, peers, stdout, subscribed, sent, lines, shutdowns,
                 taskVars, codecVars>>

\* lines 151-153: endpoint.add_node_addr(addr.clone())? for each peer; the
\* call on peer number failed_at fails (0: none does)
AddKnownPeers ==
  /\ mpc = "add_peers"
  /\ \E failed_at \in 0..Len(peers) :
       IF failed_at = 0
       THEN /\ added' = added \o peers
            /\ mpc' = "subscribe"
            /\ mres' = mres
       ELSE /\ added' = added \o SubSeq(peers, 1, failed_at)
            /\ ExitWith("AddNodeAddrError")
  /\ UNCHANGED <<args, topic_id, peers, stdout, subscribed, sent, lines, shutdowns,
                 taskVars, codecVars>>

\* a variant: the receive loop is spawned right after the subscription, the
\* AboutMe broadcast left out
Subscribe_then_spawn ==
  /\ mpc = "subscribe"
  /\ subscribed' = Append(subscribed,
                          [topic |-> topic_id,
                           bootstrap |-> Tuple([i \in 1..Len(peers) |-> peers[i].node_id])])
  /\ \/ /\ mpc' = "spawn"
        /\ mres' = mres
     \/ ExitWith("SubscribeError")
  /\ UNCHANGED <<args, topic_id, peers, stdout, added, sent, lines, shutdowns,
                 taskVars, codecVars>>

\* line 156: gossip.subscribe(topic_id, peers' node ids).await?; line 160 sleeps
Subscribe ==
  /\ mpc = "subscribe"
  /\ subscribed' = Append(subscribed,
                          [topic |-> topic_id,
                           bootstrap |-> Tuple([i \in 1..Len(peers) |-> peers[i].node_id])])
  /\ \/ /\ mpc' = "about_me"
        /\ mres' = mres
     \/ ExitWith("SubscribeError")
  /\ UNCHANGED <<args, topic_id, peers, stdout, added, sent, lines, shutdowns,
                 taskVars, codecVars>>

\* sender.broadcast(bytes).await: the call, and whether it returned Ok
Broadcast(bytes, ok) ==
  sent' = Append(sent, [bytes |-> bytes, ok |-> ok])

\* lines 163-167: the AboutMe envelope
BroadcastAboutMe ==
  /\ mpc = "about_me"
  /\ \E nonce \in Nonces, ok \in BOOLEAN :
       LET about_me == Message_new(AboutMe(Me, args.name), nonce)
       IN  /\ Broadcast(to_bytes(about_me), ok)
           /\ IF ok THEN mpc' = "spawn" /\ mres' = mres
              ELSE ExitWith("BroadcastError")
  /\ UNCHANGED <<args, topic_id, peers, stdout, added, subscribed, lines, shutdowns,
                 taskVars, codecVars>>

\* a variant: the roster handed to the task already has the session's own name
Spawn_self_known ==
  /\ mpc = "spawn"
  /\ names' = HashMap_insert(EmptyMap, Me, args.name)
  /\ task' = "running"
  /\ mpc' = "input"
  /\ UNCHANGED <<args, mres, topic_id, peers, stdout, added, subscribed, sent, lines,
                 shutdowns, delivered, output, guard, codecVars>>

\* lines 170-171: a new roster, and tokio::spawn(subscribe_loop(..)); the
\* JoinHandle is dropped
Spawn ==
  /\ mpc = "spawn"
  /\ names' = EmptyMap
  /\ task' = "running"
  /\ mpc' = "input"
  /\ UNCHANGED <<args, mres, topic_id, peers, stdout, added, subscribed, sent, lines,
                 shutdowns, delivered, output, guard, codecVars>>

\* a variant: `let _ = sender.broadcast(..).await;`, the result of the
\* broadcast dropped
InputLine_drop_result ==
  /\ mpc = "input"
  /\ Len(lines) < MaxLines
  /\ \E text \in Lines :
       /\ lines' = Append(lines, text)
       /\ IF TrimIsEmpty(text)
          THEN UNCHANGED sent
          ELSE \E nonce \in Nonces, ok \in BOOLEAN :
                 Broadcast(to_bytes(Message_new(ChatMessage(Me, text), nonce)), ok)
  /\ UNCHANGED <<args, mpc, mres, topic_id, peers, stdout, added, subscribed, shutdowns,
                 taskVars, codecVars>>

\* lines 176-184: one turn of the for loop over stdin.lines() that reads text
InputLine ==
  /\ mpc = "input"
  /\ Len(lines) < MaxLines
  /\ \E text \in Lines :
       /\ lines' = Append(lines, text)
       /\ IF TrimIsEmpty(text)
          THEN UNCHANGED <<sent, mpc, mres>>
          ELSE \E nonce \in Nonces, ok \in BOOLEAN :
                 LET msg == Message_new(ChatMessage(Me, text), nonce)
                 IN  /\ Broadcast(to_bytes(msg), ok)
                     /\ IF ok THEN UNCHANGED <<mpc, mres>>
                        ELSE ExitWith("BroadcastError")
  /\ UNCHANGED <<args, topic_id, peers, stdout, added, subscribed, shutdowns,
                 taskVars, codecVars>>

\* line 177: the line is an Err and `line?` returns it
InputError ==
  /\ mpc = "input"
  /\ ExitWith("StdinError")
  /\ UNCHANGED <<args, topic_id, peers, stdout, added, subscribed, sent, lines, shutdowns,
                 taskVars, codecVars>>

\* stdin.lines() ends: the for loop is left
InputEnd ==
  /\ mpc = "input"
  /\ mpc' = "shutdown"
  /\ UNCHANGED <<args, mres, topic_id, peers, stdout, added, subscribed, sent, lines,
                 shutdowns, taskVars, codecVars>>

\* a variant: main awaits the JoinHandle of the receive task before the
\* shutdown
Shutdown_after_join ==
  /\ mpc = "shutdown"
  /\ task \notin {"unspawned", "running"}
  /\ shutdowns' = shutdowns + 1
  /\ \/ ExitWith("Ok")
     \/ ExitWith("ShutdownError")
  /\ UNCHANGED <<args, topic_id, peers, stdout, added, subscribed, sent, lines,
                 taskVars, codecVars>>

\* lines 187-188: router.shutdown().await?; Ok(())
Shutdown ==
  /\ mpc = "shutdown"
  /\ shutdowns' = shutdowns + 1
  /\ \/ ExitWith("Ok")
     \/ ExitWith("ShutdownError")
  /\ UNCHANGED <<args, topic_id, peers, stdout, added, subscribed, sent, lines,
                 taskVars, codecVars>>

(***************************************************************************)
(* The sessions checked: Open, and Join with a ticket text the operator    *)
(* supplies.                                                               *)
(***************************************************************************)
TicketA ==
  [topic |-> TopicOf(1), nodes |-> <<AddrA>>]

TicketAB ==
  [topic |-> TopicOf(2), nodes |-> <<AddrA, AddrB>>]

\* text with its first character replaced by !
WithBang(text) ==
  Tuple([i \in 1..Len(text) |-> IF i = 1 THEN 33 ELSE text[i]])

\* valid base 32 of the first n bytes of the ticket's serialization
CutTicketText(ticket, n) ==
  to_lowercase(Base32Encode(SubSeq(WriteTicket(ticket), 1, n)))

JoinTexts ==
  { Ticket_fmt(TicketA),
    to_uppercase(Ticket_fmt(TicketA)),
    Ticket_fmt(TicketAB),
    WithBang(Ticket_fmt(TicketA)),
    CutTicketText(TicketA, 10) }

\* --name is NameAl or empty for Open, NameAl for Join
ArgsSet ==
  {[command |-> "Open", ticket |-> <<>>, name |-> n] : n \in {<<>>, NameAl}}
    \cup {[command |-> "Join", ticket |-> t, name |-> NameAl] : t \in JoinTexts}

CodecIdle ==
  /\ cpc = "idle"
  /\ cval = <<>>
  /\ cwire = <<>>
  /\ cnote = "none"
  /\ cres = <<>>

Init ==
  /\ args \in ArgsSet
  /\ mpc = "bind"
  /\ mres = "running"
  /\ topic_id = <<>>
  /\ peers = <<>>
  /\ stdout = <<>>
  /\ added = <<>>
  /\ subscribed = <<>>
  /\ sent = <<>>
  /\ lines = <<>>
  /\ shutdowns = 0
  /\ task = "unspawned"
  /\ names = EmptyMap
  /\ delivered = <<>>
  /\ output = <<>>
  /\ guard = FALSE
  /\ CodecIdle

Next ==
  \/ Bind
  \/ CommandOpen
  \/ CommandJoin
  \/ AddKnownPeers
  \/ Subscribe
  \/ BroadcastAboutMe
  \/ Spawn
  \/ InputLine
  \/ InputError
  \/ InputEnd
  \/ Shutdown
  \/ SessionLoopEvent
  \/ LoopEnd
  \/ LoopReceiverError

Spec ==
  Init /\ [][Next]_vars

(***************************************************************************)
(* subscribe_loop on its own: the state main leaves when it has spawned    *)
(* the task in an Open session, main waiting for input from then on.       *)
(***************************************************************************)
LoopInit ==
  /\ args = [command |-> "Open", ticket |-> <<>>, name |-> NameAl]
  /\ mpc = "input"
  /\ mres = "running"
  /\ topic_id = TopicOf(1)
  /\ peers = <<>>
  /\ stdout = <<Ticket_fmt([topic |-> TopicOf(1), nodes |-> <<MyAddr>>])>>
  /\ added = <<>>
  /\ subscribed = <<[topic |-> TopicOf(1), bootstrap |-> <<>>]>>
  /\ sent = <<[bytes |-> to_bytes(Message_new(AboutMe(Me, NameAl), NonceOf(0))),
               ok |-> TRUE]>>
  /\ lines = <<>>
  /\ shutdowns = 0
  /\ task = "running"
  /\ names = EmptyMap
  /\ delivered = <<>>
  /\ output = <<>>
  /\ guard = FALSE
  /\ CodecIdle

LoopNext ==
  \/ LoopEvent
  \/ LoopEnd
  \/ LoopReceiverError

LoopSpec ==
  LoopInit /\ [][LoopNext]_vars

(***************************************************************************)
(* subscribe_loop on envelopes that reach it by different peers: each body *)
(* is delivered by the peer it names and by another.                       *)
(***************************************************************************)
RelayEvents ==
  {Received(Wire(body), by) :
     body \in {AboutMe(PeerA, NameAl), AboutMe(PeerA, NameBo), ChatMessage(PeerA, TextHi)},
     by \in {PeerA, PeerB}}

RelayLoopEvent ==
  LoopTurn(RelayEvents, MaxEvents)

RelayNext ==
  \/ RelayLoopEvent
  \/ LoopEnd
  \/ LoopReceiverError

RelaySpec ==
  LoopInit /\ [][RelayNext]_vars

(***************************************************************************)
(* The codecs on their own: a ticket or an envelope body is encoded, the   *)
(* text or the bytes may be changed on the way, and the result is decoded. *)
(***************************************************************************)
RECURSIVE SeqsUpTo(_, _)
\* the sequences over S of length at most n
SeqsUpTo(S, n) ==
  IF n = 0 THEN {<<>>}
  ELSE LET shorter == SeqsUpTo(S, n - 1)
       IN  shorter \cup {Append(q, x) : q \in {r \in shorter : Len(r) = n - 1}, x \in S}

\* the valid (topic, peers)
Tickets ==
  {[topic |-> t, nodes |-> ns] : t \in Topics, ns \in SeqsUpTo({MyAddr, AddrA, AddrB}, MaxNodes)}

\* the valid MessageBody values
Bodies ==
  {AboutMe(id, n) : id \in {Me, PeerA}, n \in DisplayNames \cup {TextQuote}}
    \cup {ChatMessage(id, t) : id \in {Me, PeerA}, t \in {TextHi, TextQuote, <<32, 9>>}}

\* text with every second character in upper case
MixedCase(text) ==
  Tuple([i \in 1..Len(text) |-> IF i % 2 = 0 THEN to_uppercase(<<text[i]>>)[1] ELSE text[i]])

CodecInit ==
  /\ args = [command |-> "Open", ticket |-> <<>>, name |-> NameAl]
  /\ mpc = "exit"
  /\ mres = "Ok"
  /\ topic_id = <<>>
  /\ peers = <<>>
  /\ stdout = <<>>
  /\ added = <<>>
  /\ subscribed = <<>>
  /\ sent = <<>>
  /\ lines = <<>>
  /\ shutdowns = 0
  /\ task = "unspawned"
  /\ names = EmptyMap
  /\ delivered = <<>>
  /\ output = <<>>
  /\ guard = FALSE
  /\ \/ cpc = "ticket" /\ cval \in Tickets
     \/ cpc = "envelope" /\ cval \in Bodies
  /\ cwire = <<>>
  /\ cnote = "none"
  /\ cres = <<>>

\* format!("{}", ticket)
TicketEncode ==
  /\ cpc = "ticket"
  /\ cwire' = Ticket_fmt(cval)
  /\ cnote' = "asis"
  /\ cpc' = "ticket_text"
  /\ UNCHANGED <<cval, cres, mainVars, taskVars>>

\* the operator retypes the ticket in another case
TicketRecase ==
  /\ cpc = "ticket_text" /\ cnote = "asis"
  /\ \/ cwire' = to_uppercase(cwire) /\ cnote' = "upper"
     \/ cwire' = MixedCase(cwire) /\ cnote' = "mixed"
  /\ UNCHANGED <<cpc, cval, cres, mainVars, taskVars>>

\* the operator supplies a text with a character no ticket has, or the base 32
\* of bytes that are not a ticket
TicketDamage ==
  /\ cpc = "ticket_text" /\ cnote = "asis"
  /\ \/ cwire' = WithBang(cwire) /\ cnote' = "bang"
     \/ \E n \in {0, 10, Len(WriteTicket(cval)) - 1} :
          cwire' = CutTicketText(cval, n) /\ cnote' = "schema"
  /\ UNCHANGED <<cpc, cval, cres, mainVars, taskVars>>

\* text.parse::<Ticket>()
TicketDecode ==
  /\ cpc = "ticket_text"
  /\ cres' = Ticket_from_str(cwire)
  /\ cpc' = "ticket_done"
  /\ UNCHANGED <<cval, cwire, cnote, mainVars, taskVars>>

\* Message::new(body).to_bytes(); cval becomes the Message built
EnvelopeEncode ==
  /\ cpc = "envelope"
  /\ \E nonce \in Nonces :
       /\ cval' = Message_new(cval, nonce)
       /\ cwire' = to_bytes(Message_new(cval, nonce))
  /\ cnote' = "asis"
  /\ cpc' = "envelope_bytes"
  /\ UNCHANGED <<cres, mainVars, taskVars>>

\* only the first n bytes arrive
EnvelopeTruncate ==
  /\ cpc = "envelope_bytes" /\ cnote = "asis"
  /\ \E n \in {0, 3, Len(cwire) - 1} : cwire' = SubSeq(cwire, 1, n)
  /\ cnote' = "cut"
  /\ UNCHANGED <<cpc, cval, cres, mainVars, taskVars>>

\* Message::from_bytes(&bytes)
EnvelopeDecode ==
  /\ cpc = "envelope_bytes"
  /\ cres' = from_bytes(cwire)
  /\ cpc' = "envelope_done"
  /\ UNCHANGED <<cval, cwire, cnote, mainVars, taskVars>>

CodecNext ==
  \/ TicketEncode
  \/ TicketRecase
  \/ TicketDamage
  \/ TicketDecode
  \/ EnvelopeEncode
  \/ EnvelopeTruncate
  \/ EnvelopeDecode

CodecSpec ==
  CodecInit /\ [][CodecNext]_vars

(***************************************************************************)
(* What the properties below read from the log of delivered events.        *)
(***************************************************************************)
\* the event the loop took last
LastEvent ==
  delivered[Len(delivered)]

\* an envelope that decodes
IsEnvelope(event) ==
  event.type = "Received" /\ from_bytes(event.content).ok

\* the body of an envelope that decodes
BodyOf(event) ==
  from_bytes(event.content).val.body

IsAboutMe(event) ==
  IsEnvelope(event) /\ BodyOf(event).type = "AboutMe"

IsChat(event) ==
  IsEnvelope(event) /\ BodyOf(event).type = "Message"

\* the positions in the log of the AboutMe envelopes that name id
AboutMeOf(id) ==
  {i \in 1..Len(delivered) : IsAboutMe(delivered[i]) /\ BodyOf(delivered[i]).from = id}

\* the greatest element of a non-empty set of numbers
Max(S) ==
  CHOOSE x \in S : \A y \in S : y <= x

\* a text that is empty or of white space only
Blank(text) ==
  \A i \in 1..Len(text) : text[i] \in {9, 10, 11, 12, 13, 32}

\* this step is the loop taking one more event
TookEvent ==
  /\ Len(delivered') = Len(delivered) + 1
  /\ delivered' = Append(delivered, LastEvent')

(***************************************************************************)
(* C1.  Roster last-write-wins: whatever events the loop has processed,    *)
(* an identity of which no AboutMe{from, _} was processed has no roster    *)
(* entry, and any other identity's entry is the name of the AboutMe        *)
(* processed last for it.                                                  *)
(***************************************************************************)
C1_LastWriteWins ==
  /\ DOMAIN names \subseteq NodeIds
  /\ \A id \in NodeIds :
       IF AboutMeOf(id) = {} THEN id \notin DOMAIN names
       ELSE /\ id \in DOMAIN names
            /\ names[id] = BodyOf(delivered[Max(AboutMeOf(id))]).name

\* AboutMe{PeerA, "Al"} and later AboutMe{PeerA, "Bo"} were processed
C1_Witness ==
  /\ \E i, j \in AboutMeOf(PeerA) :
       /\ i < j /\ j = Max(AboutMeOf(PeerA))
       /\ BodyOf(delivered[i]).name = NameAl
       /\ BodyOf(delivered[j]).name = NameBo
  /\ names[PeerA] = NameBo

(***************************************************************************)
(* C2.  Roster idempotence: a step that processes the AboutMe observation  *)
(* the step before it processed leaves the roster as it was.               *)
(***************************************************************************)
C2_Idempotent ==
  [][(/\ TookEvent
      /\ delivered # <<>>
      /\ IsAboutMe(LastEvent)
      /\ IsAboutMe(LastEvent')
      /\ BodyOf(LastEvent') = BodyOf(LastEvent))
     => names' = names]_vars

\* the same AboutMe of a non-empty name was processed twice in a row
C2_Witness ==
  \E i \in 1..(Len(delivered) - 1) :
    /\ IsAboutMe(delivered[i])
    /\ delivered[i + 1] = delivered[i]
    /\ BodyOf(delivered[i]).name # <<>>
    /\ names[BodyOf(delivered[i]).from] = BodyOf(delivered[i]).name

(***************************************************************************)
(* C3.  Chat name resolution.  The name a chat line shows for `from`:      *)
(* the roster entry when there is one, the short form of the identity      *)
(* when no AboutMe of `from` was processed.                                *)
(***************************************************************************)
ShownName(from) ==
  IF from \in DOMAIN names THEN names[from] ELSE fmt_short(from)

\* the step processes Chat{from, text} as the claim says, but for the name
\* being blank or not
ChatStepResolves ==
  /\ task' = "running"
  /\ names' = names
  /\ AboutMeOf(BodyOf(LastEvent').from) = {} =>
       ShownName(BodyOf(LastEvent').from) = fmt_short(BodyOf(LastEvent').from)
  /\ output' = Append(output, [kind |-> "chat",
                               name |-> ShownName(BodyOf(LastEvent').from),
                               text |-> BodyOf(LastEvent').text])

\* C3 as claimed: processing Chat{from, text} shows the roster entry of from,
\* or the short form of from when no AboutMe of from was processed; the loop
\* does not fail, the name shown is never blank, the roster is unchanged
C3_Original ==
  [][(TookEvent /\ IsChat(LastEvent'))
     => /\ ChatStepResolves
        /\ ~Blank(ShownName(BodyOf(LastEvent').from))]_vars

\* C3 as amended: the same, the name shown being never blank only when it is
\* the short form; a roster entry is shown as it is, blank when the AboutMe
\* processed last for from carried a blank name
C3_ChatResolves ==
  [][(TookEvent /\ IsChat(LastEvent'))
     => /\ ChatStepResolves
        /\ BodyOf(LastEvent').from \notin DOMAIN names =>
             ~Blank(ShownName(BodyOf(LastEvent').from))]_vars

\* a chat of PeerA was shown under its short form and, after an AboutMe of
\* PeerA, another under the name announced
C3_Witness ==
  \E i, j \in 1..Len(output) :
    /\ i < j
    /\ output[i].kind = "chat" /\ output[i].name = fmt_short(PeerA)
    /\ output[j].kind = "chat" /\ output[j].name = NameAl

(***************************************************************************)
(* C4.  A malformed envelope is fatal to the loop: the step that takes     *)
(* bytes that do not decode ends the task with MalformedEnvelope, changes  *)
(* neither the roster nor the output, and no step of the task follows.     *)
(***************************************************************************)
C4_MalformedFatal ==
  [][/\ (TookEvent /\ LastEvent'.type = "Received" /\ ~IsEnvelope(LastEvent'))
          => (task' = "MalformedEnvelope" /\ names' = names /\ output' = output)
     /\ task = "MalformedEnvelope" => UNCHANGED taskVars]_vars

\* the loop stopped on the truncated envelope with a roster entry in place
C4_Witness ==
  /\ task = "MalformedEnvelope"
  /\ Len(delivered) = 3
  /\ ~IsEnvelope(LastEvent)
  /\ PeerA \in DOMAIN names
  /\ Len(output) = 2

(***************************************************************************)
(* C5.  Decode failures are surfaced fail-fast: once the receive loop has  *)
(* stopped on a MalformedEnvelope, the session reads no further line,      *)
(* broadcasts no further envelope and does not end with Ok.                *)
(***************************************************************************)
C5_FailFast ==
  [][task = "MalformedEnvelope"
     => (lines' = lines /\ sent' = sent /\ mres' # "Ok")]_vars

(***************************************************************************)
(* C6.  NeighborUp, NeighborDown and Lagged: the step prints one line,     *)
(* leaves the roster as it was and leaves the loop running.                *)
(***************************************************************************)
C6_MembershipFrame ==
  [][(TookEvent /\ LastEvent'.type \in {"NeighborUp", "NeighborDown", "Lagged"})
     => /\ names' = names
        /\ Len(output') = Len(output) + 1
        /\ SubSeq(output', 1, Len(output)) = output
        /\ output'[Len(output')].kind =
             (CASE LastEvent'.type = "NeighborUp" -> "neighbor_up"
                [] LastEvent'.type = "NeighborDown" -> "neighbor_down"
                [] LastEvent'.type = "Lagged" -> "lagged")
        /\ task' = "running"]_vars

\* NeighborDown(PeerA) came after PeerA's AboutMe, the entry is still there
\* and the loop processed a further event
C6_Witness ==
  /\ Len(delivered) = 3
  /\ IsAboutMe(delivered[1]) /\ BodyOf(delivered[1]).from = PeerA
  /\ delivered[2] = NeighborDown(PeerA)
  /\ delivered[3] = Lagged
  /\ PeerA \in DOMAIN names
  /\ Len(output) = 3
  /\ task = "running"

(***************************************************************************)
(* C7.  Blank input is never broadcast.                                    *)
(***************************************************************************)
\* the body of an envelope handed to Sender.broadcast
SentBody(call) ==
  from_bytes(call.bytes).val.body

\* the line the send loop read in this step
LineRead ==
  lines'[Len(lines')]

\* C7: in the send loop a broadcast is made only by a step that reads a line;
\* a step that reads a blank line makes none, and a step that reads any other
\* line makes one, after those made before, of a Chat envelope from the
\* session's own identity whose text is that line
C7_BlankNeverBroadcast ==
  [][/\ (mpc = "input" /\ sent' # sent) => Len(lines') = Len(lines) + 1
     /\ Len(lines') = Len(lines) + 1
          => /\ lines' = Append(lines, LineRead)
             /\ Blank(LineRead) => sent' = sent
             /\ ~Blank(LineRead)
                  => /\ Len(sent') = Len(sent) + 1
                     /\ SubSeq(sent', 1, Len(sent)) = sent
                     /\ from_bytes(sent'[Len(sent')].bytes).ok
                     /\ SentBody(sent'[Len(sent')]) = ChatMessage(Me, LineRead)]_vars

\* a line of white space was read, then a line of text, and only the AboutMe
\* and one Chat envelope were broadcast
C7_Witness ==
  /\ Len(lines) = 2
  /\ lines[1] = <<32, 9>>
  /\ lines[2] = <<32>> \o TextQuote
  /\ Len(sent) = 2
  /\ SentBody(sent[2]) = ChatMessage(Me, lines[2])

(***************************************************************************)
(* C8.  Ticket codec round-trip.                                           *)
(***************************************************************************)
\* the characters of a lowercase, unpadded base 32 text: a-z and 2-7
LowerBase32 ==
  (97..122) \cup (50..55)

\* C8: the text a ticket encodes to is lowercase and unpadded; decoding it,
\* as it is, in upper case or in mixed case, yields the ticket's topic and
\* its peers in their order
C8_TicketRoundTrip ==
  /\ (cpc \in {"ticket_text", "ticket_done"} /\ cnote = "asis")
       => (cwire # <<>> /\ Range(cwire) \subseteq LowerBase32)
  /\ (cpc = "ticket_done" /\ cnote \in {"asis", "upper", "mixed"})
       => /\ cres.ok
          /\ cres.val.topic = cval.topic
          /\ cres.val.nodes = cval.nodes

\* a ticket of two peers was decoded from its upper-cased text
C8_Witness ==
  /\ cpc = "ticket_done"
  /\ cnote = "upper"
  /\ Len(cval.nodes) = 2
  /\ cval.nodes[1] # cval.nodes[2]
  /\ cwire # Ticket_fmt(cval)
  /\ cres = [ok |-> TRUE, val |-> cval]

(***************************************************************************)
(* C9.  Envelope codec round-trip.                                         *)
(***************************************************************************)
\* C9: decoding the bytes of an envelope succeeds and yields the body the
\* envelope was built from, and a nonce of 16 bytes, the envelope's
C9_EnvelopeRoundTrip ==
  (cpc = "envelope_done" /\ cnote = "asis")
    => /\ cres.ok
       /\ cres.val.body = cval.body
       /\ Len(cres.val.nonce) = 16
       /\ cres.val.nonce = cval.nonce

\* a Chat whose text has a quote and a backslash went through the codec
C9_Witness ==
  /\ cpc = "envelope_done"
  /\ cnote = "asis"
  /\ cval.body = ChatMessage(PeerA, TextQuote)
  /\ cres.ok
  /\ cres.val.body.text = TextQuote

(***************************************************************************)
(* C10.  Open mode.                                                        *)
(***************************************************************************)
\* C10: a session started with Open registers no peer with the transport,
\* and when it subscribes it has printed one ticket, whose topic is the topic
\* subscribed to and whose only peer is the opener's own address, and it
\* subscribes with no known peer
C10_OpenMode ==
  [][args.command = "Open"
     => /\ added' = <<>>
        /\ subscribed' # subscribed
             => /\ subscribed' = <<[topic |-> topic_id, bootstrap |-> <<>>]>>
                /\ Len(stdout) = 1
                /\ Ticket_from_str(stdout[1]) =
                     [ok |-> TRUE, val |-> [topic |-> topic_id, nodes |-> <<MyAddr>>]]]_vars

\* an Open session has subscribed and reads its input
C10_Witness ==
  /\ args.command = "Open"
  /\ mpc = "input"
  /\ Len(stdout) = 1
  /\ Len(subscribed) = 1
  /\ subscribed[1].topic = TopicOf(2)
  /\ subscribed[1].bootstrap = <<>>

(***************************************************************************)
(* C11.  Join mode.                                                        *)
(***************************************************************************)
\* the node ids of a list of addresses
NodeIdsOf(nodes) ==
  Tuple([i \in 1..Len(nodes) |-> nodes[i].node_id])

\* the step subscribes as the parsed ticket says, its peers registered
JoinSubscribes(ticket) ==
  /\ ticket.ok
  /\ added = ticket.val.nodes
  /\ subscribed = <<>>
  /\ subscribed' = <<[topic |-> ticket.val.topic,
                      bootstrap |-> NodeIdsOf(ticket.val.nodes)]>>

\* C11: a session started with Join and a valid ticket has, when it
\* subscribes, registered every address of the ticket with the transport, in
\* the ticket's order, and subscribes once, to the ticket's topic with the
\* ticket's peers; with the ticket an Open session of PeerA prints, the peers
\* are the one address of PeerA
C11_JoinMode ==
  [][(args.command = "Join" /\ subscribed' # subscribed)
     => /\ JoinSubscribes(Ticket_from_str(args.ticket))
        /\ args.ticket = Ticket_fmt([topic |-> TopicOf(1), nodes |-> <<AddrA>>])
             => (peers = <<AddrA>> /\ added = <<AddrA>>
                   /\ subscribed'[1].bootstrap = <<PeerA>>)]_vars

\* a session joined with the ticket of two peers: both were registered, then
\* the topic was subscribed to with both
C11_Witness ==
  /\ args.command = "Join"
  /\ mpc = "input"
  /\ added = <<AddrA, AddrB>>
  /\ subscribed = <<[topic |-> TopicOf(2), bootstrap |-> <<PeerA, PeerB>>]>>

(***************************************************************************)
(* C12.  An invalid ticket is fatal to start-up.                           *)
(***************************************************************************)
\* the session has had no effect on the transport and has no receive task
NothingStarted ==
  /\ added = <<>>
  /\ subscribed = <<>>
  /\ sent = <<>>
  /\ task = "unspawned"
  /\ lines = <<>>
  /\ shutdowns = 0

\* C12: Join with a text that has a `!` ends with InvalidTicketEncoding, and
\* Join with the base 32 of bytes that are no ticket ends with
\* InvalidTicketSchema; the session has then registered no peer, subscribed to
\* no topic, broadcast nothing and started no receive loop, and it takes no
\* further step
C12_InvalidTicketFatal ==
  [][/\ (mpc = "command" /\ mpc' # mpc /\ args.command = "Join"
           /\ 33 \in Range(args.ticket))
          => (mpc' = "exit" /\ mres' = "InvalidTicketEncoding" /\ NothingStarted')
     /\ (mpc = "command" /\ mpc' # mpc /\ args.command = "Join"
           /\ args.ticket = CutTicketText(TicketA, 10))
          => (mpc' = "exit" /\ mres' = "InvalidTicketSchema" /\ NothingStarted')
     /\ (mpc = "exit" /\ mres \in {"InvalidTicketEncoding", "InvalidTicketSchema"})
          => (NothingStarted /\ UNCHANGED vars)]_vars

\* a session given the base 32 of ten bytes of a ticket has ended
C12_Witness ==
  /\ args.command = "Join"
  /\ 33 \notin Range(args.ticket)
  /\ mpc = "exit"
  /\ mres = "InvalidTicketSchema"
  /\ NothingStarted

(***************************************************************************)
(* C13.  Introduction ordering.                                            *)
(***************************************************************************)
\* the envelope handed to the broadcast this step makes
BodySent ==
  from_bytes(sent'[Len(sent')].bytes).val.body

\* C13: the step main takes when the subscription has returned Ok is its first
\* broadcast; the first broadcast of a session is made when the subscription
\* has returned Ok and the receive loop is not started, and it is the AboutMe
\* of the session's own identity and configured name; every later broadcast
\* is of a Chat; the receive loop is started, and a line is read, only when
\* that one AboutMe has been broadcast
C13_IntroductionOrdering ==
  [][/\ (Len(subscribed) = 1 /\ mres = "running" /\ sent = <<>>
           /\ mainVars' # mainVars)
          => Len(sent') = 1
     /\ (Len(sent') = Len(sent) + 1 /\ sent = <<>>)
          => /\ Len(subscribed) = 1
             /\ mres = "running"
             /\ task = "unspawned"
             /\ lines = <<>>
             /\ from_bytes(sent'[1].bytes).ok
             /\ BodySent = [type |-> "AboutMe", from |-> Me, name |-> args.name]
     /\ (Len(sent') = Len(sent) + 1 /\ sent # <<>>)
          => /\ SubSeq(sent', 1, Len(sent)) = sent
             /\ BodySent.type = "Message"
     /\ (task' # "unspawned" \/ lines' # <<>>)
          => (Len(sent') >= 1 /\ sent'[1].ok)
     /\ Len(sent') >= Len(sent)]_vars

\* a session named Al has broadcast its AboutMe, started the receive loop,
\* and then broadcast a Chat
C13_Witness ==
  /\ Len(sent) = 2
  /\ task = "running"
  /\ SentBody(sent[1]) = [type |-> "AboutMe", from |-> Me, name |-> NameAl]
  /\ SentBody(sent[2]).type = "Message"
  /\ Len(subscribed) = 1

(***************************************************************************)
(* C14.  Shutdown on end of input.                                         *)
(***************************************************************************)
\* the lines read that are not blank
LinesToSend ==
  {i \in 1..Len(lines) : ~Blank(lines[i])}

\* C14: once the input has ended the one step main takes is the shutdown
\* request, which it can take whatever the receive loop is doing; the request
\* is made once, when the AboutMe and one envelope for every line read that
\* is not blank have been broadcast, and main ends with it; no line is read
\* and no broadcast made after it, and main returns Ok only through it
C14_ShutdownOnEnd ==
  [][/\ mpc = "shutdown"
          => /\ ENABLED Shutdown
             /\ mainVars' # mainVars => shutdowns' = shutdowns + 1
     /\ shutdowns' # shutdowns
          => /\ shutdowns = 0 /\ shutdowns' = 1
             /\ mpc = "shutdown" /\ mpc' = "exit"
             /\ mres' \in {"Ok", "ShutdownError"}
             /\ sent' = sent /\ lines' = lines
             /\ Len(sent) = 1 + Cardinality(LinesToSend)
             /\ \A i \in 1..Len(sent) : sent[i].ok
     /\ shutdowns >= 1 => (mpc = "exit" /\ UNCHANGED mainVars)
     /\ mres' = "Ok" => shutdowns' = 1]_vars

\* main has returned Ok after a blank line and a line of text, the receive
\* loop still running
C14_Witness ==
  /\ mpc = "exit"
  /\ mres = "Ok"
  /\ shutdowns = 1
  /\ task = "running"
  /\ Len(lines) = 2
  /\ Len(sent) = 2

(***************************************************************************)
(* C15.  Transport failures are fatal and never retried.                   *)
(***************************************************************************)
\* C15: a broadcast that failed is the last call of the session, which has
\* ended with BroadcastError; a session whose subscribe failed has ended with
\* SubscribeError having subscribed once and broadcast nothing; and a
\* session that has ended with either makes no further call
C15_TransportFatal ==
  [][/\ \A i \in 1..Len(sent') :
          ~sent'[i].ok => (i = Len(sent') /\ mpc' = "exit" /\ mres' = "BroadcastError")
     /\ mres' = "SubscribeError"
          => (mpc' = "exit" /\ Len(subscribed') = 1 /\ sent' = <<>> /\ task' = "unspawned")
     /\ mres' = "BroadcastError"
          => (mpc' = "exit" /\ sent' # <<>> /\ ~sent'[Len(sent')].ok)
     /\ Len(subscribed') <= 1
     /\ mres \in {"SubscribeError", "BroadcastError"}
          => UNCHANGED <<subscribed, sent, lines, shutdowns, mpc, mres>>]_vars

\* the broadcast of the first line failed and the session has ended
C15_Witness ==
  /\ mpc = "exit"
  /\ mres = "BroadcastError"
  /\ Len(lines) = 1
  /\ Len(sent) = 2
  /\ sent[1].ok
  /\ ~sent[2].ok
  /\ shutdowns = 0

(***************************************************************************)
(* C16.  Receive-loop termination.                                         *)
(***************************************************************************)
\* the loop starts with an empty roster and nothing processed
LoopStartsEmpty ==
  (task = "unspawned" /\ task' # task)
    => (task' = "running" /\ names' = EmptyMap /\ delivered' = <<>> /\ output' = <<>>)

\* the stream ends and the loop returns Ok, no bytes that do not decode
\* having been delivered
ReturnsOk ==
  /\ task' = "Ok"
  /\ delivered' = delivered
  /\ \A i \in 1..Len(delivered) :
       delivered[i].type = "Received" => IsEnvelope(delivered[i])

\* the loop returns on bytes that do not decode
ReturnsMalformed ==
  /\ task' = "MalformedEnvelope"
  /\ TookEvent
  /\ LastEvent'.type = "Received"
  /\ ~IsEnvelope(LastEvent')

\* a loop that has returned does nothing more
ReturnIsFinal ==
  task \in {"Ok", "MalformedEnvelope", "ReceiverError"} => UNCHANGED taskVars

\* C16 as claimed: the loop starts with an empty roster; it returns only when
\* the stream ends, with Ok, or on bytes that do not decode, with
\* MalformedEnvelope
C16_Original ==
  [][/\ LoopStartsEmpty
     /\ (task = "running" /\ task' # task) => (ReturnsOk \/ ReturnsMalformed)
     /\ ReturnIsFinal]_vars

\* C16 as amended: the same, and the loop also returns, with the receiver's
\* error, when try_next() yields an Err
C16_LoopTermination ==
  [][/\ LoopStartsEmpty
     /\ (task = "running" /\ task' # task)
          => \/ ReturnsOk
             \/ ReturnsMalformed
             \/ (task' = "ReceiverError" /\ UNCHANGED <<names, delivered, output>>)
     /\ ReturnIsFinal]_vars

\* the loop processed an AboutMe, the stream ended and the loop returned Ok
C16_Witness ==
  /\ task = "Ok"
  /\ Len(delivered) = 1
  /\ IsAboutMe(delivered[1])
  /\ DOMAIN names = {PeerA}
  /\ Len(output) = 1

(***************************************************************************)
(* C17.  Robustness to the delivery model.                                 *)
(***************************************************************************)
\* every envelope delivered so far decodes
WellFormedSoFar ==
  \A i \in 1..Len(delivered) :
    delivered[i].type = "Received" => IsEnvelope(delivered[i])

\* the kind of line the loop prints for an event
KindOf(event) ==
  CASE event.type = "NeighborUp" -> "neighbor_up"
    [] event.type = "NeighborDown" -> "neighbor_down"
    [] event.type = "Lagged" -> "lagged"
    [] IsAboutMe(event) -> "joined"
    [] IsChat(event) -> "chat"

\* C17: as long as every envelope delivered decodes and the receiver yields
\* no error, whatever the envelopes, their repetitions and their order, and
\* whatever membership and lag events come between them, the loop has not
\* failed and has printed one line for every event delivered, of the event's
\* kind, in the order of delivery
C17_DeliveryRobust ==
  (WellFormedSoFar /\ task # "ReceiverError")
    => /\ task \in {"running", "Ok"}
       /\ Len(output) = Len(delivered)
       /\ \A i \in 1..Len(delivered) : output[i].kind = KindOf(delivered[i])

\* the same AboutMe came twice with a NeighborUp between, and three lines
\* were printed, the third the first again
C17_Witness ==
  /\ Len(delivered) = 3
  /\ delivered[1] = delivered[3]
  /\ IsAboutMe(delivered[1])
  /\ delivered[2] = NeighborUp(PeerA)
  /\ Len(output) = 3
  /\ output[3] = output[1]
  /\ task = "running"

(***************************************************************************)
(* C18.  Roster ownership under concurrency.                               *)
(***************************************************************************)
\* C18: in every interleaving of main and the receive task, the roster
\* changes only in a step of the task that processes an AboutMe envelope, main
\* taking no part in it; a step of main leaves the roster and its lock as
\* they are (a read of the roster would take the lock); and the task holds
\* no guard of the roster where it awaits the next event
C18_RosterOwnership ==
  [][/\ names' # names
          => (TookEvent /\ IsAboutMe(LastEvent') /\ mainVars' = mainVars)
     /\ mainVars' # mainVars
          => (names' = names /\ guard' = guard)
     /\ ~guard /\ ~guard']_vars

\* the task has put PeerA in the roster and awaits the next event, while
\* main has read a line and broadcast it
C18_Witness ==
  /\ task = "running"
  /\ DOMAIN names = {PeerA}
  /\ ~guard
  /\ mpc = "input"
  /\ Len(lines) = 1
  /\ Len(sent) = 2

(***************************************************************************)
(* C19.  Roster entries are never evicted.                                 *)
(***************************************************************************)
\* the identities named in the from field of an AboutMe of a log of events
AnnouncedBy(log) ==
  {BodyOf(log[i]).from : i \in {j \in 1..Len(log) : IsAboutMe(log[j])}}

\* C19: no step removes a key of the roster, whatever event it processes,
\* and the keys of the roster are exactly the identities named in the from
\* field of some AboutMe processed
C19_NeverEvicted ==
  [][/\ DOMAIN names \subseteq DOMAIN names'
     /\ DOMAIN names = AnnouncedBy(delivered)
     /\ DOMAIN names' = AnnouncedBy(delivered')]_vars

\* PeerA and PeerB announced themselves, then PeerA disconnected: both are
\* in the roster
C19_Witness ==
  /\ Len(delivered) = 3
  /\ IsAboutMe(delivered[1]) /\ BodyOf(delivered[1]).from = PeerA
  /\ IsAboutMe(delivered[2]) /\ BodyOf(delivered[2]).from = PeerB
  /\ delivered[3] = NeighborDown(PeerA)
  /\ DOMAIN names = {PeerA, PeerB}

(***************************************************************************)
(* C20.  No sender binding.                                                *)
(***************************************************************************)
\* the roster a sequence of bodies leaves, whoever delivered them
RECURSIVE RosterAfter(_)
RosterAfter(bodies) ==
  IF bodies = <<>> THEN <<>>
  ELSE LET before == RosterAfter(SubSeq(bodies, 1, Len(bodies) - 1))
           last == bodies[Len(bodies)]
       IN  IF last.type = "AboutMe"
           THEN [x \in (DOMAIN before) \cup {last.from} |->
                   IF x = last.from THEN last.name ELSE before[x]]
           ELSE before

\* the name printed for a body after a sequence of bodies, whoever delivered
\* them
NameAfter(bodies, body) ==
  IF body.type = "AboutMe" THEN body.name
  ELSE IF body.from \in DOMAIN RosterAfter(bodies) THEN RosterAfter(bodies)[body.from]
  ELSE fmt_short(body.from)

\* the bodies of a log of envelopes
BodiesOf(log) ==
  Tuple([i \in 1..Len(log) |-> BodyOf(log[i])])

\* the roster and the names printed are those of the bodies
SameAsBodies(bodies) ==
  /\ names = RosterAfter(bodies)
  /\ Len(output) = Len(bodies)
  /\ \A i \in 1..Len(bodies) :
       output[i].name = NameAfter(SubSeq(bodies, 1, i - 1), bodies[i])

\* C20: the roster, and the name every line is printed under, are a function
\* of the sequence of bodies processed alone: two runs that process the same
\* bodies, delivered by whatever peers, have the same roster and print the
\* same names; so an AboutMe{from: X, name} delivered by another peer than X
\* overwrites the entry of X
C20_NoSenderBinding ==
  /\ SameAsBodies(BodiesOf(delivered))
  /\ (delivered # <<>> /\ BodyOf(LastEvent).type = "AboutMe")
       => names[BodyOf(LastEvent).from] = BodyOf(LastEvent).name

\* PeerA announced itself as Al, then PeerB delivered an AboutMe that names
\* PeerA as Bo, and a Chat of PeerA is printed under Bo
C20_Witness ==
  /\ Len(delivered) = 3
  /\ delivered[1] = Received(Wire(AboutMe(PeerA, NameAl)), PeerA)
  /\ delivered[2] = Received(Wire(AboutMe(PeerA, NameBo)), PeerB)
  /\ IsChat(delivered[3])
  /\ names[PeerA] = NameBo
  /\ output[3].name = NameBo

====
